---- MODULE Spec2Model ----
(***************************************************************************)
(* Model of apps/rcr/rcr-track.cpp: the rcr-track video loop (main) and    *)
(* the geometry helper get_enclosing_bbox.                                 *)
(*                                                                         *)
(* main is modelled as a sequential program: pc is the position in main,   *)
(* every action is one statement group of main.  The external              *)
(* collaborators (command-line parser, model loader, cascade classifier,   *)
(* video capture, key board) are inputs: their outcomes are chosen with \E *)
(* from the outcomes that main distinguishes.  log is the sequence of      *)
(* calls main made to its collaborators, in program order.                 *)
(***************************************************************************)
EXTENDS Integers, Sequences, FiniteSets, TLC

VARIABLES pc, exitStatus, have_face, current_landmarks, image,
          detected_faces, key, frameNo, log, stateWrites, landmarks, bbox

vars == <<pc, exitStatus, have_face, current_landmarks, image,
          detected_faces, key, frameNo, log, stateWrites, landmarks, bbox>>

pipeVars == <<pc, exitStatus, have_face, current_landmarks, image,
              detected_faces, key, frameNo, log, stateWrites>>

geomVars == <<landmarks, bbox>>

(***************************************************************************)
(* Bounds of the model.                                                    *)
(***************************************************************************)
\* non-empty frames the frame source delivers at most
MaxFrames == 2
\* candidates the face detector returns at most on one frame
MaxFaces == 2
\* landmark points of an input of get_enclosing_bbox at most
MaxPts == 2
\* coordinates are counted in 1/Scale pixel, so that the double -> int
\* conversion of cv::Rect_<int> has something to cut off
Scale == 2
\* largest coordinate magnitude, in 1/Scale pixel
MaxCoord == 2

(***************************************************************************)
(* Values.                                                                 *)
(***************************************************************************)
\* the rectangles the face detector can return
Boxes == {"b1", "b2"}
NoBox == "none"

\* rcr::LandmarkCollection: default-constructed (empty), or the result of
\* rcr_model.detect on a frame with an initial box
NoLandmarks == [frame |-> 0, init |-> NoBox]

\* cv::Mat image: id 0 is the empty Mat; rect / lms are what has been drawn
EmptyMat == [id |-> 0, rect |-> NoBox, lms |-> NoLandmarks]
RawFrame(n) == [id |-> n, rect |-> NoBox, lms |-> NoLandmarks]

\* return values of cv::waitKey: -1 when no key was pressed in the delay,
\* the key code otherwise
KeyCodes == {-1, 27}

\* an entry of log: one call of main to a collaborator
Ev(op, f, img, box, faces, k) ==
  [op |-> op, f |-> f, img |-> img, box |-> box, faces |-> faces, key |-> k]

FaceLists == UNION { [1..n -> Boxes] : n \in 0..MaxFaces }

(***************************************************************************)
(* Collaborators, as far as main depends on them.                          *)
(***************************************************************************)
\* rcr_model.detect(image, box): a black box; the result is a non-empty
\* landmark collection that belongs to the frame and the initial box
ModelDetect(img, box) == [frame |-> img.id, init |-> box]

\* cv::rectangle(image, box, ...) and rcr::draw_landmarks(image, lms):
\* both draw into the Mat they are given
DrawRectangle(img, box) == [img EXCEPT !.rect = box]
DrawLandmarks(img, lms) == [img EXCEPT !.lms = lms]

(***************************************************************************)
(* Decisions of main.                                                      *)
(***************************************************************************)
\* line 133; the variant starts the loop with a track
InitHaveFaceTrue == TRUE
InitHaveFace == FALSE

\* line 134: default-constructed collection
InitLandmarks == NoLandmarks

\* lines 84-88 and 91-95: both a help request and a po::error return
\* EXIT_SUCCESS; the variant reports a po::error as a failure
ParseExitStatusErrorFails(r) == IF r = "error" THEN "EXIT_FAILURE" ELSE "EXIT_SUCCESS"
ParseExitStatus(r) == "EXIT_SUCCESS"

\* lines 103-106, 110-114, 123-126; the variant returns what the command
\* line errors return
SetupFailStatusAlwaysSuccess(step) == "EXIT_SUCCESS"
SetupFailStatus(step) == "EXIT_FAILURE"

\* where main goes after a setup step, by the step's outcome; the variant
\* lacks the return statements
SetupFallThrough(ok, next) == next
SetupNextPc(ok, next) == IF ok THEN next ELSE "exited"

\* lines 139-141: break on an empty frame; the variant lacks the test
AfterCaptureNoBreak(img) == "branch"
AfterCapture(img) == IF img = EmptyMat THEN "return" ELSE "branch"

\* lines 144 and 168: the detect branch or the (empty) else branch
AfterBranch == IF ~have_face THEN "detect" ELSE "show"

\* line 151
FacesEmpty(d) == Len(d) = 0

\* lines 156 and 159: detected_faces[0]; the variant takes the last candidate
LastFace(d) == d[Len(d)]
FirstFace(d) == d[1]

\* line 152: imshow gets the image as it is; the variant draws the
\* landmarks kept in current_landmarks first
NoFaceShownWithKeptLandmarks(img) == DrawLandmarks(img, current_landmarks)
NoFaceShown(img) == img

\* lines 151-155 assign neither have_face nor current_landmarks; the variant
\* clears the landmarks when no face was found
TrackStateClearedOnNoFace ==
  [lms |-> NoLandmarks, writes |-> stateWrites + 1]
TrackStateAfterNoFace ==
  [lms |-> current_landmarks, writes |-> stateWrites]

\* lines 153-154: the return value of waitKey is dropped, continue; the
\* variant leaves the loop instead
AfterNoFaceBreak(k) == "return"
AfterNoFace(k) == "capture"

\* line 164 is a comment: have_face keeps its value; the variant has the
\* assignment of line 164 active
HaveFaceSetTrue == TRUE
HaveFaceAfterColdStart == have_face

\* lines 163-167: falls out of the if to the imshow of line 179; the variant
\* goes on with the next frame as the no-face path does
ColdStartContinue == "capture"
AfterColdStart == "show"

\* line 183; the variant reports a failure
ReturnStatusFailure == "EXIT_FAILURE"
ReturnStatus == "EXIT_SUCCESS"

\* line 180
AfterShow(k) == IF k >= 0 THEN "return" ELSE "capture"

(***************************************************************************)
(* get_enclosing_bbox<int>(cv::Mat landmarks).  landmarks is one row:      *)
(* the x coordinates of all points, then their y coordinates.  Values are  *)
(* counted in 1/Scale pixel.                                               *)
(***************************************************************************)
Coords == (0 - MaxCoord)..MaxCoord

\* the landmark rows of 0..MaxPts points
LandmarkMats == UNION { [1..(2 * n) -> Coords] : n \in 0..MaxPts }

\* line 50: landmarks.cols / 2
NumLandmarks(m) == Len(m) \div 2

\* landmarks.colRange(a, b): the columns a .. b-1 (0-based)
ColRange(m, a, b) == { m[i] : i \in (a + 1)..b }

\* cv::minMaxLoc over a non-empty range
MinVal(S) == CHOOSE v \in S : \A w \in S : v <= w
MaxVal(S) == CHOOSE v \in S : \A w \in S : w <= v

\* double -> int, the conversion of the arguments of cv::Rect_<int>(...):
\* the fraction is cut off (towards zero); the result is in whole pixels
ToInt(v) == IF v >= 0 THEN v \div Scale ELSE 0 - ((0 - v) \div Scale)

Rect(x, y, w, h) == [kind |-> "rect", x |-> x, y |-> y, width |-> w, height |-> h]
NoRect(kind) == [kind |-> kind, x |-> 0, y |-> 0, width |-> 0, height |-> 0]

\* lines 50-54, for a row with at least one point; the variant takes the
\* maxima themselves as width and height
EnclosingBboxWidthFromOrigin(m) ==
  LET n == NumLandmarks(m)
      xs == ColRange(m, 0, n)
      ys == ColRange(m, n, Len(m))
  IN Rect(ToInt(MinVal(xs)), ToInt(MinVal(ys)),
          ToInt(MaxVal(xs)), ToInt(MaxVal(ys)))
EnclosingBbox(m) ==
  LET n == NumLandmarks(m)
      xs == ColRange(m, 0, n)
      ys == ColRange(m, n, Len(m))
  IN Rect(ToInt(MinVal(xs)), ToInt(MinVal(ys)),
          ToInt(MaxVal(xs) - MinVal(xs)), ToInt(MaxVal(ys) - MinVal(ys)))

\* lines 50-54, for a row without columns: the function tests nothing, both
\* column ranges are empty and what happens is OpenCV's: either one of its
\* own assertions throws a cv::Exception, or minMaxLoc reports 0 for every
\* extreme of an empty array and line 54 returns the rectangle of zeros
EmptyBboxOutcomes == { NoRect("cv_exception"), Rect(0, 0, 0, 0) }

\* the outcomes of get_enclosing_bbox(m)
GetEnclosingBbox(m) ==
  IF Len(m) = 0 THEN EmptyBboxOutcomes ELSE { EnclosingBbox(m) }

\* the call get_enclosing_bbox(landmarks)
CallGetEnclosingBbox ==
  /\ bbox.kind = "none"
  /\ bbox' \in GetEnclosingBbox(landmarks)
  /\ UNCHANGED <<landmarks, pipeVars>>


(***************************************************************************)
(* main.                                                                   *)
(***************************************************************************)
PipeInit ==
  /\ pc = "parse"
  /\ exitStatus = "running"
  /\ have_face = InitHaveFace
  /\ current_landmarks = InitLandmarks
  /\ image = EmptyMat
  /\ detected_faces = << >>
  /\ key = -1
  /\ frameNo = 0
  /\ log = << >>
  /\ stateWrites = 0

\* lines 70-95: command line; help and a parse error both end the program
ParseArgs ==
  /\ pc = "parse"
  /\ \E r \in {"ok", "help", "error"} :
       /\ log' = Append(log, Ev("parse_" \o r, 0, EmptyMat, NoBox, << >>, -1))
       /\ IF r = "ok"
          THEN pc' = "load_model" /\ UNCHANGED exitStatus
          ELSE pc' = "exited" /\ exitStatus' = ParseExitStatus(r)
  /\ UNCHANGED <<have_face, current_landmarks, image, detected_faces, key,
                 frameNo, stateWrites, geomVars>>

\* one setup step: the collaborator's load / open succeeds or fails
SetupStep(here, op, next) ==
  /\ pc = here
  /\ \E ok \in BOOLEAN :
       /\ log' = Append(log, Ev(op \o (IF ok THEN "_ok" ELSE "_failed"),
                                0, EmptyMat, NoBox, << >>, -1))
       /\ pc' = SetupNextPc(ok, next)
       /\ exitStatus' = IF pc' = "exited" THEN SetupFailStatus(op)
                        ELSE exitStatus
  /\ UNCHANGED <<have_face, current_landmarks, image, detected_faces, key,
                 frameNo, stateWrites, geomVars>>

\* lines 97-106: rcr::load_detection_model, cereal::Exception caught
LoadModel == SetupStep("load_model", "load_model", "load_fd")

\* lines 108-114: face_cascade.load
LoadFaceDetector == SetupStep("load_fd", "load_fd", "open_cap")

\* lines 116-126: cap.open and cap.isOpened
OpenCapture == SetupStep("open_cap", "open_cap", "init_loop")

\* lines 128-134: window, image, have_face, current_landmarks
InitLoop ==
  /\ pc = "init_loop"
  /\ have_face' = InitHaveFace
  /\ current_landmarks' = InitLandmarks
  /\ image' = EmptyMat
  /\ pc' = "capture"
  /\ UNCHANGED <<exitStatus, detected_faces, key, frameNo, log, stateWrites, geomVars>>

\* lines 138-141: cap >> image; an empty image ends the loop
Capture ==
  /\ pc = "capture"
  /\ \E empty \in BOOLEAN :
       /\ ~empty => frameNo < MaxFrames
       /\ image' = IF empty THEN EmptyMat ELSE RawFrame(frameNo + 1)
  /\ frameNo' = frameNo + 1
  /\ log' = Append(log, Ev("capture", frameNo', image', NoBox, << >>, -1))
  /\ pc' = AfterCapture(image')
  /\ detected_faces' = << >>
  /\ key' = -1
  /\ stateWrites' = 0
  /\ UNCHANGED <<exitStatus, have_face, current_landmarks, geomVars>>

\* lines 144 and 168-177: if (!have_face) ... else { } (the else branch
\* holds comments only)
Branch ==
  /\ pc = "branch"
  /\ pc' = AfterBranch
  /\ UNCHANGED <<exitStatus, have_face, current_landmarks, image,
                 detected_faces, key, frameNo, log, stateWrites, geomVars>>

\* lines 146-150: face_cascade.detectMultiScale(image, detected_faces, ...)
DetectFaces ==
  /\ pc = "detect"
  /\ \E d \in FaceLists :
       /\ detected_faces' = d
       /\ log' = Append(log, Ev("fd", frameNo, image, NoBox, d, -1))
  /\ pc' = "faces"
  /\ UNCHANGED <<exitStatus, have_face, current_landmarks, image, key,
                 frameNo, stateWrites, geomVars>>

\* lines 151-155: no face: show the frame, wait, continue
NoFace ==
  /\ pc = "faces"
  /\ FacesEmpty(detected_faces)
  /\ \E k \in KeyCodes :
       /\ key' = k
       /\ log' = log \o << Ev("imshow", frameNo, NoFaceShown(image), NoBox, << >>, -1),
                           Ev("waitKey", frameNo, EmptyMat, NoBox, << >>, k) >>
       /\ pc' = AfterNoFace(k)
  /\ current_landmarks' = TrackStateAfterNoFace.lms
  /\ stateWrites' = TrackStateAfterNoFace.writes
  /\ UNCHANGED <<exitStatus, have_face, image, detected_faces, frameNo,
                 geomVars>>

\* lines 156-166: rectangle, rcr_model.detect, draw_landmarks; line 159 is
\* the one assignment to current_landmarks, line 164 assigns nothing
ColdStart ==
  /\ pc = "faces"
  /\ ~FacesEmpty(detected_faces)
  /\ LET box == FirstFace(detected_faces)
         img1 == DrawRectangle(image, box)
         lms == ModelDetect(img1, box)
         img2 == DrawLandmarks(img1, lms)
     IN /\ current_landmarks' = lms
        /\ image' = img2
        /\ log' = log \o << Ev("rectangle", frameNo, image, box, << >>, -1),
                            Ev("lm_detect", frameNo, img1, box, << >>, -1),
                            Ev("draw_landmarks", frameNo, img1, NoBox, << >>, -1) >>
  /\ stateWrites' = stateWrites + 1
  /\ have_face' = HaveFaceAfterColdStart
  /\ pc' = AfterColdStart
  /\ UNCHANGED <<exitStatus, detected_faces, key, frameNo, geomVars>>

\* lines 179-180: imshow; if (waitKey(30) >= 0) break
Show ==
  /\ pc = "show"
  /\ \E k \in KeyCodes :
       /\ key' = k
       /\ log' = log \o << Ev("imshow", frameNo, image, NoBox, << >>, -1),
                           Ev("waitKey", frameNo, EmptyMat, NoBox, << >>, k) >>
       /\ pc' = AfterShow(k)
  /\ UNCHANGED <<exitStatus, have_face, current_landmarks, image,
                 detected_faces, frameNo, stateWrites, geomVars>>

\* line 183
Return ==
  /\ pc = "return"
  /\ pc' = "exited"
  /\ exitStatus' = ReturnStatus
  /\ UNCHANGED <<have_face, current_landmarks, image, detected_faces, key,
                 frameNo, log, stateWrites, geomVars>>

\* the state of main and of one call of get_enclosing_bbox:
\*   pc                 position in main
\*   exitStatus         the value main returned, "running" before
\*   have_face          line 133
\*   current_landmarks  line 134
\*   image              line 129, filled by cap >> image
\*   detected_faces     line 147, local to one iteration
\*   key                the last return value of cv::waitKey in the iteration
\*   frameNo            how often cap >> image ran
\*   log                the calls to the collaborators so far
\*   stateWrites        the assignments to have_face and current_landmarks
\*                      since the last cap >> image (lines 159, 164, 176)
\*   landmarks, bbox    argument and result of get_enclosing_bbox
TypeOK ==
  /\ pc \in {"parse", "load_model", "load_fd", "open_cap", "init_loop",
             "capture", "branch", "detect", "faces", "show", "return", "exited"}
  /\ exitStatus \in {"running", "EXIT_SUCCESS", "EXIT_FAILURE"}
  /\ have_face \in BOOLEAN
  /\ current_landmarks \in [frame : 0..(MaxFrames + 1), init : Boxes \cup {NoBox}]
  /\ image.id \in 0..(MaxFrames + 1)
  /\ detected_faces \in FaceLists
  /\ key \in KeyCodes
  /\ frameNo \in 0..(MaxFrames + 1)
  /\ stateWrites \in 0..1
  /\ \A i \in DOMAIN log : log[i].f \in 0..frameNo
  /\ landmarks \in LandmarkMats
  /\ bbox.kind \in {"none", "rect", "cv_exception"}

Next ==
  \/ ParseArgs
  \/ LoadModel
  \/ LoadFaceDetector
  \/ OpenCapture
  \/ InitLoop
  \/ Capture
  \/ Branch
  \/ DetectFaces
  \/ NoFace
  \/ ColdStart
  \/ Show
  \/ Return

Init == PipeInit /\ landmarks = << >> /\ bbox = NoRect("none")

Spec == Init /\ [][Next]_vars

\* main is one thread and every collaborator call returns (a finite frame
\* source answers cap >> image, waitKey(30) returns after 30 ms at the
\* latest), so main always takes its next step
SpecLive == Init /\ [][Next]_vars /\ WF_vars(Next)

\* get_enclosing_bbox alone, on every landmark row of the bounds
InitBBox == PipeInit /\ landmarks \in LandmarkMats /\ bbox = NoRect("none")

NextBBox == CallGetEnclosingBbox

SpecBBox == InitBBox /\ [][NextBBox]_vars

(***************************************************************************)
(* Reading the log.                                                        *)
(***************************************************************************)
LogIdx == DOMAIN log

\* the calls made while frame f was the current frame, in order
FrameOps(f) ==
  LET sel == SelectSeq(log, LAMBDA e : e.f = f)
  IN [i \in DOMAIN sel |-> sel[i].op]

HasOp(f, op) == \E i \in LogIdx : log[i].f = f /\ log[i].op = op

IsPrefix(s, t) == Len(s) <= Len(t) /\ \A i \in DOMAIN s : s[i] = t[i]

Overlay == {"rectangle", "lm_detect", "draw_landmarks"}

\* the face detector found nothing on every frame it has seen so far
NoFaceOnAnyFrame ==
  \A i \in LogIdx : log[i].op = "fd" => log[i].faces = << >>

(***************************************************************************)
(* C1.  Starting with have_face = FALSE, as long as the face detector has  *)
(* returned no candidate on any frame, have_face is FALSE, the landmark    *)
(* model has not been called, nothing has been drawn, and every frame      *)
(* shown so far was shown as captured.                                     *)
(***************************************************************************)
C1_NoFaceStaysNoTrack ==
  NoFaceOnAnyFrame =>
    /\ have_face = FALSE
    /\ current_landmarks = NoLandmarks
    /\ \A i \in LogIdx : log[i].op \notin Overlay
    /\ \A i \in LogIdx : log[i].op = "imshow" => log[i].img = RawFrame(log[i].f)

\* two frames without a face have been shown and a third is awaited
C1_Witness ==
  /\ pc = "capture"
  /\ frameNo = 2
  /\ NoFaceOnAnyFrame
  /\ FrameOps(1) = <<"capture", "fd", "imshow", "waitKey">>
  /\ FrameOps(2) = <<"capture", "fd", "imshow", "waitKey">>

(***************************************************************************)
(* C2.  The capture of an empty frame is the last call of the run: the     *)
(* loop is left at once, and neither the face detector, the landmark       *)
(* model, a drawing call nor imshow follows it.                            *)
(***************************************************************************)
C2_EmptyFrameEndsLoop ==
  \A i \in LogIdx :
    (log[i].op = "capture" /\ log[i].img = EmptyMat) =>
      /\ i = Len(log)
      /\ pc \in {"return", "exited"}
      /\ FrameOps(log[i].f) = <<"capture">>

\* the source ran dry after two frames were processed
C2_Witness ==
  /\ pc = "return"
  /\ frameNo = 3
  /\ image = EmptyMat
  /\ log[Len(log)].op = "capture"
  /\ HasOp(2, "lm_detect")

(***************************************************************************)
(* C3.  The cold start has just run on the current frame.                  *)
(***************************************************************************)
ColdStartRan == pc = "show" /\ HasOp(frameNo, "lm_detect")

\* C3 as stated: after the cold start the machine is in TRACKING
\* (have_face = TRUE) with the landmarks of this frame
C3_ColdStartEntersTracking ==
  ColdStartRan =>
    /\ have_face = TRUE
    /\ current_landmarks = [frame |-> frameNo, init |-> detected_faces[1]]

\* C3 as amended: after the cold start have_face is still FALSE, the
\* landmarks are those of this frame, and the frame that follows a cold
\* start is again given to the face detector
C3_ColdStartStaysNoTrack ==
  /\ ColdStartRan =>
       /\ have_face = FALSE
       /\ current_landmarks = [frame |-> frameNo, init |-> detected_faces[1]]
       /\ current_landmarks # NoLandmarks
  /\ \A f \in 1..frameNo :
       (HasOp(f - 1, "lm_detect") /\ (f < frameNo \/ pc \notin {"branch", "detect"})
          /\ \E i \in LogIdx : log[i].f = f /\ log[i].op = "capture"
                                /\ log[i].img # EmptyMat)
       => HasOp(f, "fd")
  /\ (pc = "branch" /\ HasOp(frameNo - 1, "lm_detect")) => ~have_face

\* the frame after a cold start has been given to the face detector
C3_Witness ==
  /\ pc = "faces"
  /\ frameNo = 2
  /\ HasOp(1, "lm_detect")
  /\ HasOp(2, "fd")
  /\ ~have_face
  /\ current_landmarks.frame = 1

(***************************************************************************)
(* C4.  At the head of the loop, have_face = TRUE implies that             *)
(* current_landmarks is non-empty and is the result of the frame processed *)
(* last.  have_face is TRUE in no reachable state, so the premise never    *)
(* holds and the formula is true without saying anything about the         *)
(* landmarks; NeverTracking is the fact behind that.                       *)
(***************************************************************************)
C4_TrackImpliesFreshLandmarks ==
  (pc = "capture" /\ have_face) =>
    /\ current_landmarks # NoLandmarks
    /\ current_landmarks.frame = frameNo

NeverTracking == ~have_face

(***************************************************************************)
(* C7.  A key pressed during the waitKey of an iteration ends the loop in  *)
(* that iteration, also when no face was detected on the frame.            *)
(***************************************************************************)
C7_KeyPressEndsLoop ==
  key >= 0 => pc \in {"return", "exited"}

(***************************************************************************)
(* C8.  Once the model load, the detector load or the opening of the       *)
(* frame source has failed, the program has ended with EXIT_FAILURE, the   *)
(* failed step is the last thing it did, no frame was ever captured and    *)
(* no setup step ran twice.                                                *)
(***************************************************************************)
SetupFailures == {"load_model_failed", "load_fd_failed", "open_cap_failed"}

SetupAttempts(step) ==
  Cardinality({ i \in LogIdx : log[i].op \in {step \o "_ok", step \o "_failed"} })

C8_SetupFailureFatal ==
  \A i \in LogIdx :
    log[i].op \in SetupFailures =>
      /\ pc = "exited"
      /\ exitStatus = "EXIT_FAILURE"
      /\ i = Len(log)
      /\ frameNo = 0
      /\ \A j \in LogIdx : log[j].op # "capture"
      /\ \A step \in {"load_model", "load_fd", "open_cap"} : SetupAttempts(step) <= 1

\* the frame source could not be opened after both loads succeeded
C8_Witness ==
  /\ pc = "exited"
  /\ Len(log) = 4
  /\ log[4].op = "open_cap_failed"
  /\ exitStatus = "EXIT_FAILURE"

(***************************************************************************)
(* C9.  Every call of the landmark model got, as its initial box, the      *)
(* first candidate of the list the face detector returned on the same      *)
(* frame, and that list is the latest the detector returned.               *)
(***************************************************************************)
C9_ColdStartUsesFirstCandidate ==
  \A i \in LogIdx :
    log[i].op = "lm_detect" =>
      \E j \in 1..(i - 1) :
        /\ log[j].op = "fd"
        /\ log[j].f = log[i].f
        /\ log[i].img.id = log[i].f
        /\ log[j].faces # << >>
        /\ log[i].box = Head(log[j].faces)
        /\ \A k \in (j + 1)..i : log[k].op # "fd"

\* the detector returned two different candidates, b2 first
C9_Witness ==
  \E i \in LogIdx :
    /\ log[i].op = "lm_detect"
    /\ log[i].box = "b2"
    /\ detected_faces = <<"b2", "b1">>
    /\ log[i].f = frameNo
    /\ frameNo = 2

(***************************************************************************)
(* C10.  The calls of the run are grouped by frame, in the order of the    *)
(* frames.  For a frame that is finished the calls are: capture, face      *)
(* detector, [rectangle, landmark model, landmarks], imshow, waitKey; for  *)
(* the frame in work they are a prefix of that.  So every non-empty frame  *)
(* is shown once, after its detection and drawing and before the next      *)
(* capture, and the detector and the model run at most once per frame.     *)
(***************************************************************************)
NoFacePattern == <<"capture", "fd", "imshow", "waitKey">>
FacePattern == <<"capture", "fd", "rectangle", "lm_detect", "draw_landmarks",
                 "imshow", "waitKey">>

FrameFinished(f) == f < frameNo \/ pc \in {"capture", "return", "exited"}

NonEmptyFrame(f) ==
  \E i \in LogIdx : log[i].op = "capture" /\ log[i].f = f /\ log[i].img # EmptyMat

C10_FrameSequential ==
  /\ \A i \in 1..(Len(log) - 1) : log[i].f <= log[i + 1].f
  /\ \A f \in 1..frameNo :
       NonEmptyFrame(f) =>
         IF FrameFinished(f)
         THEN FrameOps(f) \in {NoFacePattern, FacePattern}
         ELSE IsPrefix(FrameOps(f), NoFacePattern) \/ IsPrefix(FrameOps(f), FacePattern)

\* a frame with a face and a frame without have been finished
C10_Witness ==
  /\ pc = "capture"
  /\ frameNo = 2
  /\ FrameOps(1) = FacePattern
  /\ FrameOps(2) = NoFacePattern

(***************************************************************************)
(* get_enclosing_bbox: reading its input and result.                       *)
(***************************************************************************)
PointIdx == 1..NumLandmarks(landmarks)
PX(i) == landmarks[i]
PY(i) == landmarks[NumLandmarks(landmarks) + i]

\* every coordinate is a whole number of pixels
IntegerCoords == \A i \in DOMAIN landmarks : landmarks[i] % Scale = 0

BboxReturned == bbox.kind # "none"

(***************************************************************************)
(* C5.  For a non-empty landmark set with integer coordinates the result   *)
(* is a rectangle that holds every point, and each of its four sides       *)
(* passes through a point.                                                 *)
(***************************************************************************)
C5_BboxEnclosesTightly ==
  (BboxReturned /\ Len(landmarks) > 0 /\ IntegerCoords) =>
    /\ bbox.kind = "rect"
    /\ \A i \in PointIdx :
         /\ bbox.x * Scale <= PX(i) /\ PX(i) <= (bbox.x + bbox.width) * Scale
         /\ bbox.y * Scale <= PY(i) /\ PY(i) <= (bbox.y + bbox.height) * Scale
    /\ \E i \in PointIdx : PX(i) = bbox.x * Scale
    /\ \E i \in PointIdx : PX(i) = (bbox.x + bbox.width) * Scale
    /\ \E i \in PointIdx : PY(i) = bbox.y * Scale
    /\ \E i \in PointIdx : PY(i) = (bbox.y + bbox.height) * Scale

\* two points, one with negative coordinates, that span a box
C5_Witness ==
  /\ BboxReturned
  /\ IntegerCoords
  /\ landmarks = <<0 - Scale, Scale, 0, 0 - Scale>>
  /\ bbox = Rect(-1, -1, 2, 1)

(***************************************************************************)
(* C6.  Called with an empty landmark set, get_enclosing_bbox fails and    *)
(* returns no rectangle.                                                   *)
(***************************************************************************)
C6_EmptyFailsInvalidInput ==
  (BboxReturned /\ Len(landmarks) = 0) => bbox.kind # "rect"

(***************************************************************************)
(* C11.  The image given to the cold-start detection is the frame as it    *)
(* was captured: nothing has been drawn into it.                           *)
(***************************************************************************)
C11_ColdStartGetsRawFrame ==
  \A i \in LogIdx :
    log[i].op = "lm_detect" => log[i].img = RawFrame(log[i].f)

(***************************************************************************)
(* C12.  The assignments to have_face and current_landmarks, counted per   *)
(* frame in stateWrites.                                                   *)
(***************************************************************************)
CurrentFrameDone == FrameFinished(frameNo) /\ NonEmptyFrame(frameNo)

\* C12 as stated: when a non-empty frame is finished, the track state has
\* been assigned exactly once for it, whether a face was found or not
C12_OneWritePerFrame ==
  CurrentFrameDone => stateWrites = 1

\* C12 as amended: the track state is assigned at most once per frame and
\* never before the cold-start detection of the frame; when a non-empty
\* frame is finished it has been assigned once if the detector found a face
\* (current_landmarks is then the result of this frame) and not at all if
\* it found none (current_landmarks is then not of this frame)
C12_WritesFollowDetection ==
  /\ stateWrites <= 1
  /\ stateWrites = 1 => HasOp(frameNo, "lm_detect")
  /\ CurrentFrameDone =>
       IF HasOp(frameNo, "lm_detect")
       THEN stateWrites = 1 /\ current_landmarks.frame = frameNo
       ELSE stateWrites = 0 /\ current_landmarks.frame # frameNo

\* a frame with a face, then a finished frame without: nothing was assigned
\* on the second
C12_Witness ==
  /\ pc = "capture"
  /\ frameNo = 2
  /\ HasOp(1, "lm_detect")
  /\ FrameOps(2) = NoFacePattern
  /\ stateWrites = 0

(***************************************************************************)
(* C13.  A frame met with have_face = TRUE is given to the landmark model  *)
(* (warm start), not to the face detector, and current_landmarks is then   *)
(* the result of this frame.  The else branch of lines 168-177 holds       *)
(* comments only, but no reachable state has have_face = TRUE              *)
(* (NeverTracking), so the premise never holds and the formula is true     *)
(* without saying anything about a warm start.                             *)
(***************************************************************************)
C13_TrackingWarmStarts ==
  (have_face /\ pc = "show") =>
    /\ HasOp(frameNo, "lm_detect")
    /\ ~HasOp(frameNo, "fd")
    /\ current_landmarks.frame = frameNo

(***************************************************************************)
(* C14.  When a frame without a face has just been shown, main is still    *)
(* running, stands at the head of the loop, and its next step is the       *)
(* capture of the next frame.                                              *)
(***************************************************************************)
JustFinishedNoFace ==
  /\ Len(log) > 0
  /\ log[Len(log)].op = "waitKey"
  /\ FrameOps(frameNo) = NoFacePattern

C14_NoFaceContinues ==
  /\ [](JustFinishedNoFace => (pc = "capture" /\ exitStatus = "running"))
  /\ [][JustFinishedNoFace =>
          /\ Len(log') = Len(log) + 1
          /\ log'[Len(log')].op = "capture"
          /\ exitStatus' = "running"]_vars

\* after a frame without a face the next frame has been captured
C14_Witness ==
  /\ pc = "branch"
  /\ frameNo = 2
  /\ FrameOps(1) = NoFacePattern
  /\ image = RawFrame(2)
  /\ exitStatus = "running"

(***************************************************************************)
(* C15.  The frame source of the model is finite: after at most MaxFrames  *)
(* frames it delivers the empty frame.  Whenever main stands at the head   *)
(* of the loop, it later ends, with EXIT_SUCCESS, whatever the detector    *)
(* returned on the frames.  Checked under SpecLive.                        *)
(***************************************************************************)
C15_FiniteSourceTerminates ==
  (pc = "capture") ~> (pc = "exited" /\ exitStatus = "EXIT_SUCCESS")

\* the source ran dry after a frame with a face and a frame without, and
\* main returned
C15_Witness ==
  /\ pc = "exited"
  /\ exitStatus = "EXIT_SUCCESS"
  /\ frameNo = 3
  /\ image = EmptyMat
  /\ FrameOps(1) = FacePattern
  /\ FrameOps(2) = NoFacePattern

(***************************************************************************)
(* C16.  have_face is FALSE in every reachable state; every non-empty      *)
(* frame that has passed the branch of line 144 was given to the face      *)
(* detector; every call of the landmark model is a cold start (it follows  *)
(* the detector call and the rectangle of the same frame, with a box the   *)
(* detector returned); and line 179 is only reached through the detect     *)
(* branch, never through the else branch.                                  *)
(***************************************************************************)
C16_NeverTracksDetectsEveryFrame ==
  /\ ~have_face
  /\ \A f \in 1..frameNo :
       (NonEmptyFrame(f) /\ (f < frameNo \/ pc \notin {"branch", "detect"}))
         => HasOp(f, "fd")
  /\ \A i \in LogIdx :
       log[i].op = "lm_detect" =>
         /\ i > 2
         /\ log[i - 1].op = "rectangle"
         /\ log[i - 2].op = "fd"
         /\ log[i - 2].f = log[i].f
         /\ \E n \in DOMAIN log[i - 2].faces : log[i - 2].faces[n] = log[i].box
  /\ pc = "show" => HasOp(frameNo, "lm_detect")

\* the cold start has run on two frames in a row
C16_Witness ==
  /\ pc = "show"
  /\ frameNo = 2
  /\ HasOp(1, "lm_detect")
  /\ HasOp(2, "fd")
  /\ HasOp(2, "lm_detect")
  /\ ~have_face

(***************************************************************************)
(* C17.  Every image given to imshow belongs to a frame the face detector  *)
(* has seen.  If the detector returned no candidate on that frame, the     *)
(* image is the frame as captured; if it returned candidates, the image    *)
(* carries the rectangle of the first candidate and the landmarks found    *)
(* on this very frame.                                                     *)
(***************************************************************************)
C17_OverlayIffFaceOnFrame ==
  \A i \in LogIdx :
    log[i].op = "imshow" =>
      \E j \in 1..(i - 1) :
        /\ log[j].op = "fd"
        /\ log[j].f = log[i].f
        /\ log[i].img.id = log[i].f
        /\ IF log[j].faces = << >>
           THEN log[i].img = RawFrame(log[i].f)
           ELSE /\ log[i].img.rect = Head(log[j].faces)
                /\ log[i].img.lms = [frame |-> log[i].f, init |-> Head(log[j].faces)]

\* landmarks of frame 1 are still kept when frame 2, without a face, is
\* shown as captured
C17_Witness ==
  /\ frameNo = 2
  /\ current_landmarks.frame = 1
  /\ \E i \in LogIdx :
       log[i].op = "imshow" /\ log[i].f = 1 /\ log[i].img.lms = current_landmarks
  /\ \E i \in LogIdx :
       log[i].op = "imshow" /\ log[i].f = 2 /\ log[i].img = RawFrame(2)

(***************************************************************************)
(* C18.  After a command-line error, as after a help request, main has     *)
(* ended with EXIT_SUCCESS and has called nothing else: no model, no       *)
(* detector, no frame source.  After a failed load or open it has ended    *)
(* with EXIT_FAILURE.                                                      *)
(***************************************************************************)
C18_ParseErrorExitsSuccess ==
  /\ (Len(log) >= 1 /\ log[1].op \in {"parse_error", "parse_help"}) =>
       /\ pc = "exited"
       /\ exitStatus = "EXIT_SUCCESS"
       /\ Len(log) = 1
       /\ frameNo = 0
  /\ \A i \in LogIdx :
       log[i].op \in SetupFailures => (pc = "exited" /\ exitStatus = "EXIT_FAILURE")

\* the command line could not be parsed
C18_Witness ==
  /\ pc = "exited"
  /\ Len(log) = 1
  /\ log[1].op = "parse_error"
  /\ exitStatus = "EXIT_SUCCESS"

====
